---- MODULE Spec2Model ----
(***************************************************************************)
(* Model of the SVDB storage engine (svdb/storage_engine/src/lib.rs):      *)
(* a content-addressed store over a key-value database with an in-memory   *)
(* read cache.                                                             *)
(*                                                                         *)
(* Byte buffers are kept in run-length form so that the source's chunk     *)
(* size constants (1024 and 1 MiB) are used unscaled.  A buffer is a       *)
(* sequence of atoms:                                                      *)
(*   [v, n]        n copies of the byte v                                  *)
(*   [d, off, len] len characters, from position off, of the hex text of   *)
(*                 the digest d                                            *)
(*   [m]           the serde_json encoding of the FileMetadata m           *)
(* Strings (digests, database keys, the argument of retrieve) are          *)
(* sequences of tokens: [lit] a literal piece, [alg, of] the hex text of   *)
(* the digest of the buffer `of` under `alg`, [num] a decimal number.      *)
(* The hash functions are taken to be collision free: a digest is the pair *)
(* of the algorithm and the hashed buffer.                                 *)
(***************************************************************************)
EXTENDS Integers, Sequences, FiniteSets, TLC

\* ---------------------------------------------------------------- bounds
MaxCalls == 3
MaxFaults == 1
NumThreads == 2

\* ------------------------------------------------------------- constants
DEFAULT_CHUNK_SIZE == 1024 * 1024
MIN_CHUNK_SIZE == 1024
HASH_ALGORITHM_BLAKE3 == "blake3"
HASH_ALGORITHM_BLAKE2B == "blake2b"
HASH_ALGORITHM_KECCAK == "keccak256"

HashAlgorithm == {HASH_ALGORITHM_BLAKE3, HASH_ALGORITHM_BLAKE2B, HASH_ALGORITHM_KECCAK}

\* ----------------------------------------------------------- byte buffers
Run(v, n) == [v |-> v, n |-> n]

IsRun(a) == "v" \in DOMAIN a
IsHex(a) == "d" \in DOMAIN a
IsJson(a) == "m" \in DOMAIN a

\* Number of bytes of one atom (the length of a JSON text is not modelled:
\* no operation of the engine measures an encoded metadata record).
AtomLen(a) == IF IsRun(a) THEN a.n ELSE IF IsHex(a) THEN a.len ELSE 1

RECURSIVE BufLen(_)
BufLen(b) == IF b = <<>> THEN 0 ELSE AtomLen(Head(b)) + BufLen(Tail(b))

\* The first n bytes of an atom, and the atom without its first n bytes.
AtomTake(a, n) ==
    IF IsRun(a) THEN Run(a.v, n)
    ELSE [d |-> a.d, off |-> a.off, len |-> n]

AtomDrop(a, n) ==
    IF IsRun(a) THEN Run(a.v, a.n - n)
    ELSE [d |-> a.d, off |-> a.off + n, len |-> a.len - n]

\* Two adjacent atoms that are one atom in run-length form.
Mergeable(a, b) ==
    \/ IsRun(a) /\ IsRun(b) /\ a.v = b.v
    \/ IsHex(a) /\ IsHex(b) /\ a.d = b.d /\ a.off + a.len = b.off

Merge(a, b) ==
    IF IsRun(a) THEN Run(a.v, a.n + b.n)
    ELSE [d |-> a.d, off |-> a.off, len |-> a.len + b.len]

\* Vec::extend_from_slice: b appended to a.
Extend(a, b) ==
    IF a = <<>> THEN b
    ELSE IF b = <<>> THEN a
    ELSE IF Mergeable(a[Len(a)], Head(b))
         THEN SubSeq(a, 1, Len(a) - 1) \o <<Merge(a[Len(a)], Head(b))>> \o Tail(b)
         ELSE a \o b

RECURSIVE Take(_, _)
Take(b, n) ==
    IF n = 0 \/ b = <<>> THEN <<>>
    ELSE IF AtomLen(Head(b)) <= n
         THEN <<Head(b)>> \o Take(Tail(b), n - AtomLen(Head(b)))
         ELSE <<AtomTake(Head(b), n)>>

RECURSIVE Drop(_, _)
Drop(b, n) ==
    IF n = 0 \/ b = <<>> THEN b
    ELSE IF AtomLen(Head(b)) <= n
         THEN Drop(Tail(b), n - AtomLen(Head(b)))
         ELSE <<AtomDrop(Head(b), n)>> \o Tail(b)

\* slice::chunks(size): consecutive slices of size bytes, the last one the
\* remainder; no slice at all for an empty buffer.
RECURSIVE Chunks(_, _)
Chunks(b, size) ==
    IF b = <<>> THEN <<>>
    ELSE <<Take(b, size)>> \o Chunks(Drop(b, size), size)

\* ------------------------------------------------------------------ hashes
\* Length in characters of the hex text of a digest: blake3::hash and
\* Keccak256 give 32 bytes, Blake2b512 gives 64 bytes.
DigestLen(algorithm) ==
    IF algorithm = HASH_ALGORITHM_BLAKE2B THEN 128 ELSE 64

\* calculate_hash_with_algorithm: the digest string, one token.
calculate_hash_with_algorithm(data, algorithm) ==
    <<[alg |-> algorithm, of |-> data]>>

calculate_hash(data) == calculate_hash_with_algorithm(data, HASH_ALGORITHM_BLAKE3)

\* String::into_bytes of a string made of digest tokens and literal "|".
PIPE == 124
RECURSIVE StrBytes(_)
StrBytes(s) ==
    IF s = <<>> THEN <<>>
    ELSE LET t == Head(s)
             a == IF "lit" \in DOMAIN t
                  THEN Run(PIPE, 1)
                  ELSE [d |-> t, off |-> 0, len |-> DigestLen(t.alg)]
         IN  Extend(<<a>>, StrBytes(Tail(s)))

\* [String]::join("|")
RECURSIVE JoinPipe(_)
JoinPipe(hs) ==
    IF hs = <<>> THEN <<>>
    ELSE IF Len(hs) = 1 THEN hs[1]
    ELSE hs[1] \o <<[lit |-> "|"]>> \o JoinPipe(Tail(hs))

\* ---------------------------------------------------------------- chunking
\* Faulty variant: the metadata records the requested chunk size.
chunk_data_RequestedSize(data, chunk_size, algorithm, now) ==
    LET size == IF chunk_size < MIN_CHUNK_SIZE THEN DEFAULT_CHUNK_SIZE ELSE chunk_size
        chunks == Chunks(data, size)
        chunk_hashes == [i \in 1..Len(chunks) |->
                            calculate_hash_with_algorithm(chunks[i], algorithm)]
        combined_data == StrBytes(JoinPipe(chunk_hashes))
        file_hash == calculate_hash_with_algorithm(combined_data, algorithm)
    IN  [metadata |-> [hash |-> file_hash,
                       algorithm |-> algorithm,
                       size |-> BufLen(data),
                       chunk_size |-> chunk_size,
                       chunks |-> chunk_hashes,
                       timestamp |-> now],
         chunks |-> chunks]

\* Faulty variant: the object digest is the digest of the payload, whatever
\* its chunks.
chunk_data_ContentHash(data, chunk_size, algorithm, now) ==
    LET size == IF chunk_size < MIN_CHUNK_SIZE THEN DEFAULT_CHUNK_SIZE ELSE chunk_size
        chunks == Chunks(data, size)
        chunk_hashes == [i \in 1..Len(chunks) |->
                            calculate_hash_with_algorithm(chunks[i], algorithm)]
        file_hash == calculate_hash_with_algorithm(data, algorithm)
    IN  [metadata |-> [hash |-> file_hash,
                       algorithm |-> algorithm,
                       size |-> BufLen(data),
                       chunk_size |-> size,
                       chunks |-> chunk_hashes,
                       timestamp |-> now],
         chunks |-> chunks]

\* Faulty variant: a last chunk shorter than the chunk size is dropped
\* (chunks_exact instead of chunks).
RECURSIVE ChunksExact(_, _)
ChunksExact(b, size) ==
    IF BufLen(b) < size THEN <<>>
    ELSE <<Take(b, size)>> \o ChunksExact(Drop(b, size), size)

chunk_data_Exact(data, chunk_size, algorithm, now) ==
    LET size == IF chunk_size < MIN_CHUNK_SIZE THEN DEFAULT_CHUNK_SIZE ELSE chunk_size
        chunks == ChunksExact(data, size)
        chunk_hashes == [i \in 1..Len(chunks) |->
                            calculate_hash_with_algorithm(chunks[i], algorithm)]
        combined_data == StrBytes(JoinPipe(chunk_hashes))
        file_hash == calculate_hash_with_algorithm(combined_data, algorithm)
    IN  [metadata |-> [hash |-> file_hash,
                       algorithm |-> algorithm,
                       size |-> BufLen(data),
                       chunk_size |-> size,
                       chunks |-> chunk_hashes,
                       timestamp |-> now],
         chunks |-> chunks]

chunk_data(data, chunk_size, algorithm, now) ==
    LET size == IF chunk_size < MIN_CHUNK_SIZE THEN DEFAULT_CHUNK_SIZE ELSE chunk_size
        chunks == Chunks(data, size)
        chunk_hashes == [i \in 1..Len(chunks) |->
                            calculate_hash_with_algorithm(chunks[i], algorithm)]
        combined_data == StrBytes(JoinPipe(chunk_hashes))
        file_hash == calculate_hash_with_algorithm(combined_data, algorithm)
    IN  [metadata |-> [hash |-> file_hash,
                       algorithm |-> algorithm,
                       size |-> BufLen(data),
                       chunk_size |-> size,
                       chunks |-> chunk_hashes,
                       timestamp |-> now],
         chunks |-> chunks]

\* ------------------------------------------------------- metadata codec
\* serde_json::to_vec(&FileMetadata)
to_vec(metadata) == <<[m |-> metadata]>>

\* serde_json::from_slice::<FileMetadata>: only the encoding of a metadata
\* record decodes, any other bytes are an error.
from_slice(bytes) ==
    IF Len(bytes) = 1 /\ IsJson(bytes[1])
    THEN [ok |-> TRUE, m |-> bytes[1].m]
    ELSE [ok |-> FALSE, m |-> <<>>]

\* ------------------------------------------------------------------- keys
\* format!("meta:{}", hash) and format!("chunk:{}:{}", hash, i)
MetaKey(hash) == <<[lit |-> "meta:"]>> \o hash
ChunkKey(hash, i) == <<[lit |-> "chunk:"]>> \o hash \o <<[lit |-> ":"], [num |-> i]>>

IsMetaKey(k) == k # <<>> /\ k[1] = [lit |-> "meta:"]
IsChunkKey(k) == k # <<>> /\ k[1] = [lit |-> "chunk:"]

\* DB::put and HashMap::insert on a map kept as a function
Put(map, k, val) == [x \in DOMAIN map \cup {k} |-> IF x = k THEN val ELSE map[x]]

\* ---------------------------------------------------------------- results
Ok(val) == [kind |-> "Ok", val |-> val]
DBError == [kind |-> "DBError", val |-> <<>>]
HashNotFound(hash) == [kind |-> "HashNotFound", val |-> hash]
SerializationError == [kind |-> "SerializationError", val |-> <<>>]
ChunkingError(i) ==
    [kind |-> "ChunkingError",
     val |-> <<[lit |-> "Chunk "], [num |-> i], [lit |-> " not found"]>>]

\* ------------------------------------------------------------ the engine
\* An operation of the engine is a function of the store, the cache, its
\* arguments and `fail`, the position (1, 2, ...) of the database call of
\* this operation that returns an error; 0 when none does.  Its value is
\* the store and the cache it leaves, its result and `io`, the number of
\* database calls it made.

\* The loop of store_with_options over the chunks: chunk i is the database
\* call i + 2 of the operation, the loop stops at the first failed put.
RECURSIVE PutChunks(_, _, _, _, _)
PutChunks(db, hash, chunks, i, fail) ==
    IF i >= Len(chunks) THEN [db |-> db, failed |-> FALSE, io |-> i + 1]
    ELSE IF fail = i + 2 THEN [db |-> db, failed |-> TRUE, io |-> i + 2]
    ELSE PutChunks(Put(db, ChunkKey(hash, i), chunks[i + 1]), hash, chunks, i + 1, fail)

\* Faulty variant: a failed chunk write rolls the store back.
StoreChunked_Rollback(db, cache, data, algorithm, chunk_size, now, fail) ==
    LET chunked_file == chunk_data(data, chunk_size, algorithm, now)
        hash == chunked_file.metadata.hash
        w == PutChunks(Put(db, MetaKey(hash), to_vec(chunked_file.metadata)),
                       hash, chunked_file.chunks, 0, fail)
    IN  IF fail = 1 \/ w.failed
        THEN [db |-> db, cache |-> cache, res |-> DBError, io |-> IF fail = 1 THEN 1 ELSE w.io]
        ELSE [db |-> w.db, cache |-> cache, res |-> Ok(hash), io |-> w.io]

\* Faulty variant: the chunked path fills the cache as the simple path does.
StoreChunked_Cached(db, cache, data, algorithm, chunk_size, now, fail) ==
    LET chunked_file == chunk_data(data, chunk_size, algorithm, now)
        hash == chunked_file.metadata.hash
        w == PutChunks(Put(db, MetaKey(hash), to_vec(chunked_file.metadata)),
                       hash, chunked_file.chunks, 0, fail)
    IN  IF fail = 1
        THEN [db |-> db, cache |-> cache, res |-> DBError, io |-> 1]
        ELSE [db |-> w.db,
              cache |-> IF w.failed THEN cache ELSE Put(cache, hash, data),
              res |-> IF w.failed THEN DBError ELSE Ok(hash),
              io |-> w.io]

StoreChunked(db, cache, data, algorithm, chunk_size, now, fail) ==
    LET chunked_file == chunk_data(data, chunk_size, algorithm, now)
        hash == chunked_file.metadata.hash
        metadata_key == MetaKey(hash)
        metadata_bytes == to_vec(chunked_file.metadata)
    IN  IF fail = 1
        THEN [db |-> db, cache |-> cache, res |-> DBError, io |-> 1]
        ELSE LET w == PutChunks(Put(db, metadata_key, metadata_bytes),
                                hash, chunked_file.chunks, 0, fail)
             IN  [db |-> w.db, cache |-> cache,
                  res |-> IF w.failed THEN DBError ELSE Ok(hash),
                  io |-> w.io]

\* Faulty variant: the cache is not updated.
StoreSimple_NoCache(db, cache, data, algorithm, fail) ==
    LET hash == calculate_hash_with_algorithm(data, algorithm)
    IN  IF fail = 1
        THEN [db |-> db, cache |-> cache, res |-> DBError, io |-> 1]
        ELSE [db |-> Put(db, hash, data), cache |-> cache, res |-> Ok(hash), io |-> 1]

StoreSimple(db, cache, data, algorithm, fail) ==
    LET hash == calculate_hash_with_algorithm(data, algorithm)
    IN  IF fail = 1
        THEN [db |-> db, cache |-> cache, res |-> DBError, io |-> 1]
        ELSE [db |-> Put(db, hash, data),
              cache |-> Put(cache, hash, data),
              res |-> Ok(hash), io |-> 1]

\* Faulty variant: a payload as long as the chunk size is chunked.
UseChunks_AtLeast(data, chunk_size) == chunk_size > 0 /\ BufLen(data) >= chunk_size

\* The test of store_with_options that selects the chunked path.
UseChunks(data, chunk_size) == chunk_size > 0 /\ BufLen(data) > chunk_size

store_with_options(db, cache, data, algorithm, chunk_size, now, fail) ==
    IF UseChunks(data, chunk_size)
    THEN StoreChunked(db, cache, data, algorithm, chunk_size, now, fail)
    ELSE StoreSimple(db, cache, data, algorithm, fail)

store(db, cache, data, fail) ==
    store_with_options(db, cache, data, HASH_ALGORITHM_BLAKE3, 0, 0, fail)

\* The loop of retrieve over the chunk indices: chunk i is the database
\* call i + 2 of the operation.
\* Faulty variant: a missing chunk is skipped.
RECURSIVE ReadChunks_SkipMissing(_, _, _, _, _, _)
ReadChunks_SkipMissing(db, hash, n, i, data, fail) ==
    IF i >= n THEN [res |-> Ok(data), io |-> i + 1]
    ELSE IF fail = i + 2 THEN [res |-> DBError, io |-> i + 2]
    ELSE IF ChunkKey(hash, i) \in DOMAIN db
         THEN ReadChunks_SkipMissing(db, hash, n, i + 1,
                                     Extend(data, db[ChunkKey(hash, i)]), fail)
         ELSE ReadChunks_SkipMissing(db, hash, n, i + 1, data, fail)

RECURSIVE ReadChunks(_, _, _, _, _, _)
ReadChunks(db, hash, n, i, data, fail) ==
    IF i >= n THEN [res |-> Ok(data), io |-> i + 1]
    ELSE IF fail = i + 2 THEN [res |-> DBError, io |-> i + 2]
    ELSE IF ChunkKey(hash, i) \in DOMAIN db
         THEN ReadChunks(db, hash, n, i + 1, Extend(data, db[ChunkKey(hash, i)]), fail)
         ELSE [res |-> ChunkingError(i), io |-> i + 2]

\* Faulty variant: a reassembled object is not cached.
RetrieveChunked_NoCache(db, cache, hash, fail) ==
    LET metadata == from_slice(db[MetaKey(hash)])
    IN  IF ~metadata.ok
        THEN [db |-> db, cache |-> cache, res |-> SerializationError, io |-> 1, hit |-> FALSE]
        ELSE LET r == ReadChunks(db, hash, Len(metadata.m.chunks), 0, <<>>, fail)
             IN  [db |-> db, cache |-> cache, res |-> r.res, io |-> r.io, hit |-> FALSE]

\* Faulty variant: the cache entry is made before the chunks are read, and a
\* failed read leaves it empty.
RetrieveChunked_CacheFirst(db, cache, hash, fail) ==
    LET metadata == from_slice(db[MetaKey(hash)])
    IN  IF ~metadata.ok
        THEN [db |-> db, cache |-> cache, res |-> SerializationError, io |-> 1, hit |-> FALSE]
        ELSE LET r == ReadChunks(db, hash, Len(metadata.m.chunks), 0, <<>>, fail)
             IN  [db |-> db,
                  cache |-> Put(cache, hash, IF r.res.kind = "Ok" THEN r.res.val ELSE <<>>),
                  res |-> r.res, io |-> r.io, hit |-> FALSE]

RetrieveChunked(db, cache, hash, fail) ==
    LET metadata == from_slice(db[MetaKey(hash)])
    IN  IF ~metadata.ok
        THEN [db |-> db, cache |-> cache, res |-> SerializationError, io |-> 1, hit |-> FALSE]
        ELSE LET r == ReadChunks(db, hash, Len(metadata.m.chunks), 0, <<>>, fail)
             IN  [db |-> db,
                  cache |-> IF r.res.kind = "Ok" THEN Put(cache, hash, r.res.val) ELSE cache,
                  res |-> r.res, io |-> r.io, hit |-> FALSE]

\* Faulty variant: a missing object reads as an empty one.
RetrieveSimple_EmptyOnMiss(db, cache, hash, fail) ==
    IF fail = 2
    THEN [db |-> db, cache |-> cache, res |-> DBError, io |-> 2, hit |-> FALSE]
    ELSE IF hash \in DOMAIN db
         THEN [db |-> db, cache |-> Put(cache, hash, db[hash]),
               res |-> Ok(db[hash]), io |-> 2, hit |-> FALSE]
         ELSE [db |-> db, cache |-> cache, res |-> Ok(<<>>), io |-> 2, hit |-> FALSE]

RetrieveSimple(db, cache, hash, fail) ==
    IF fail = 2
    THEN [db |-> db, cache |-> cache, res |-> DBError, io |-> 2, hit |-> FALSE]
    ELSE IF hash \in DOMAIN db
         THEN [db |-> db, cache |-> Put(cache, hash, db[hash]),
               res |-> Ok(db[hash]), io |-> 2, hit |-> FALSE]
         ELSE [db |-> db, cache |-> cache, res |-> HashNotFound(hash), io |-> 2, hit |-> FALSE]

\* Faulty variant: a cache hit takes the entry out of the cache.
retrieve_Remove(db, cache, hash, fail) ==
    IF hash \in DOMAIN cache
    THEN [db |-> db, cache |-> [k \in DOMAIN cache \ {hash} |-> cache[k]],
          res |-> Ok(cache[hash]), io |-> 0, hit |-> TRUE]
    ELSE IF fail = 1
    THEN [db |-> db, cache |-> cache, res |-> DBError, io |-> 1, hit |-> FALSE]
    ELSE IF MetaKey(hash) \in DOMAIN db
         THEN RetrieveChunked(db, cache, hash, fail)
         ELSE RetrieveSimple(db, cache, hash, fail)

retrieve(db, cache, hash, fail) ==
    IF hash \in DOMAIN cache
    THEN [db |-> db, cache |-> cache, res |-> Ok(cache[hash]), io |-> 0, hit |-> TRUE]
    ELSE IF fail = 1
    THEN [db |-> db, cache |-> cache, res |-> DBError, io |-> 1, hit |-> FALSE]
    ELSE IF MetaKey(hash) \in DOMAIN db
         THEN RetrieveChunked(db, cache, hash, fail)
         ELSE RetrieveSimple(db, cache, hash, fail)

\* ------------------------------------------------------------------ inputs
\* Payloads: 2049 bytes in three runs (three chunks of 1024, the last of one
\* byte), and the text of the pipe-joined chunk digests of the first.
\* PayloadA is a payload that is never stored.
PayloadA == <<Run(0, 1024)>>
PayloadB == <<Run(1, 1024), Run(2, 1024), Run(3, 1)>>
Manifest(data, chunk_size, algorithm) ==
    StrBytes(JoinPipe(chunk_data(data, chunk_size, algorithm, 0).metadata.chunks))
PayloadM == Manifest(PayloadB, 1024, HASH_ALGORITHM_BLAKE3)

Payloads == {PayloadB, PayloadM}

\* The payload and the chunk size of a store_with_options call: no chunk
\* size, one under the floor of 1024, one that gives three chunks, and one
\* equal to the payload's length.
StoreArgs ==
    {<<PayloadB, 0>>, <<PayloadB, 512>>, <<PayloadB, 1024>>,
     <<PayloadM, BufLen(PayloadM)>>}
Algorithms == {HASH_ALGORITHM_BLAKE3, HASH_ALGORITHM_BLAKE2B}
Timestamps == {1, 2}

NotARealDigest == <<[lit |-> "not-a-real-digest"]>>

\* ------------------------------------------------------------------- state
VARIABLES
    db,       \* the key-value store: key |-> bytes
    cache,    \* the engine's cache: digest string |-> bytes
    last,     \* the last call: operation, arguments, result
    deleted,  \* the keys removed from the store behind the engine's back
    faults,   \* the number of database calls that returned an error
    calls,    \* the number of calls made
    input,    \* the arguments drawn for one application of a function
    out,      \* the value of that application
    thread,   \* of each thread: its position in a call and the call's locals
    mutex     \* the holder of the cache's mutex, or Free

vars == <<db, cache, last, deleted, faults, calls, input, out, thread, mutex>>

\* No arguments drawn, no function applied.
NoArgs == [data |-> <<>>, alg |-> "", cs |-> 0, now |-> 0]
NoOut == [op |-> "none"]

\* The threads that share the engine, a thread that is in no call, and the
\* mutex that no thread holds.
Threads == 1..NumThreads
Idle ==
    [pc |-> "idle", op |-> "none", hash |-> <<>>, data |-> <<>>,
     chunks |-> <<>>, meta |-> <<>>, n |-> 0, i |-> 0,
     res |-> [kind |-> "none", val |-> <<>>]]
Free == 0

NoCall ==
    [op |-> "none", data |-> <<>>, alg |-> "", cs |-> 0, hash |-> <<>>,
     res |-> [kind |-> "none", val |-> <<>>], hit |-> FALSE, fail |-> 0,
     after |-> "none", prevfail |-> 0]

\* StorageEngine::new on a fresh directory: an empty store, an empty cache.
Init ==
    /\ db = <<>>
    /\ cache = <<>>
    /\ last = NoCall
    /\ deleted = {}
    /\ faults = 0
    /\ calls = 0
    /\ input = NoArgs
    /\ out = NoOut
    /\ thread = [t \in Threads |-> Idle]
    /\ mutex = Free

\* The digests of the chunked objects that have a metadata record.
ObjectDigests == {Tail(k) : k \in {x \in DOMAIN db : IsMetaKey(x)}}

\* The strings a caller passes to retrieve: every digest that is in the
\* cache or in the store, the metadata key and the first chunk key of every
\* chunked object, a string that is no digest and the digest of a payload
\* that is not stored.
RetrieveInputs ==
    {k \in DOMAIN db : ~IsMetaKey(k) /\ ~IsChunkKey(k)}
        \cup DOMAIN cache \cup ObjectDigests
        \cup {NotARealDigest, calculate_hash(PayloadA)}
        \cup {MetaKey(d) : d \in ObjectDigests}
        \cup {ChunkKey(d, 0) : d \in ObjectDigests}

\* ----------------------------------------------------------------- actions
\* (\E r \in {e} names the value of e, the outcome of the call.)
\* The digest of the object that a store call is about: the one it returns
\* when no database call fails.
DigestOf(data, algorithm, chunk_size) ==
    IF UseChunks(data, chunk_size)
    THEN chunk_data(data, chunk_size, algorithm, 0).metadata.hash
    ELSE calculate_hash_with_algorithm(data, algorithm)

\* A store records in hash the digest of the object it is about.
Store(Faults) ==
    /\ calls < MaxCalls
    /\ \E data \in Payloads, fail \in Faults :
         /\ fail # 0 => faults < MaxFaults
         /\ \E r \in {store(db, cache, data, fail)} :
             /\ fail <= r.io
             /\ faults' = IF fail = 0 THEN faults ELSE faults + 1
             /\ db' = r.db
             /\ cache' = r.cache
             /\ last' = [op |-> "store", data |-> data, alg |-> HASH_ALGORITHM_BLAKE3,
                         cs |-> 0, hash |-> DigestOf(data, HASH_ALGORITHM_BLAKE3, 0), res |-> r.res, hit |-> FALSE,
                         fail |-> fail, after |-> "none", prevfail |-> 0]
    /\ calls' = calls + 1
    /\ UNCHANGED <<deleted, input, out, thread, mutex>>

StoreWithOptions(Faults) ==
    /\ calls < MaxCalls
    /\ \E args \in StoreArgs, algorithm \in Algorithms, now \in Timestamps, fail \in Faults :
         /\ UseChunks(args[1], args[2]) \/ now = 1   \* the simple path reads no clock
         /\ fail # 0 => faults < MaxFaults
         /\ \E r \in {store_with_options(db, cache, args[1], algorithm, args[2], now, fail)} :
             /\ fail <= r.io
             /\ faults' = IF fail = 0 THEN faults ELSE faults + 1
             /\ db' = r.db
             /\ cache' = r.cache
             /\ last' = [op |-> "store_with_options", data |-> args[1], alg |-> algorithm,
                         cs |-> args[2], hash |-> DigestOf(args[1], algorithm, args[2]), res |-> r.res, hit |-> FALSE,
                         fail |-> fail, after |-> "none", prevfail |-> 0]
    /\ calls' = calls + 1
    /\ UNCHANGED <<deleted, input, out, thread, mutex>>

\* A retrieve records, in data, alg, cs, after and prevfail, the call before
\* it when that call is a store of the object whose digest is now retrieved.
Retrieve(Faults) ==
    /\ calls < MaxCalls
    /\ \E hash \in RetrieveInputs, fail \in Faults :
         /\ fail # 0 => faults < MaxFaults
         /\ \E r \in {retrieve(db, cache, hash, fail)} :
           LET follows == last.op \in {"store", "store_with_options"}
                          /\ last.hash = hash
           IN
             /\ fail <= r.io
             /\ faults' = IF fail = 0 THEN faults ELSE faults + 1
             /\ db' = r.db
             /\ cache' = r.cache
             /\ last' = [op |-> "retrieve",
                         data |-> IF follows THEN last.data ELSE <<>>,
                         alg |-> IF follows THEN last.alg ELSE "",
                         cs |-> IF follows THEN last.cs ELSE 0,
                         hash |-> hash, res |-> r.res, hit |-> r.hit, fail |-> fail,
                         after |-> IF follows THEN last.op ELSE "none",
                         prevfail |-> IF follows THEN last.fail ELSE 0]
    /\ calls' = calls + 1
    /\ UNCHANGED <<deleted, input, out, thread, mutex>>

\* A single chunk entry is deleted from the store, not through the engine.
DeleteChunk ==
    /\ deleted = {}
    /\ \E k \in {x \in DOMAIN db : IsChunkKey(x)} :
         /\ db' = [x \in DOMAIN db \ {k} |-> db[x]]
         /\ deleted' = deleted \cup {k}
         /\ last' = [NoCall EXCEPT !.op = "delete", !.hash = k]
    /\ UNCHANGED <<cache, faults, calls, input, out, thread, mutex>>

NoFault == {0}
\* No payload has more than three chunks: an operation makes at most four
\* database calls.
AnyFault == 0..4

\* The engine with a store whose calls succeed.
Next ==
    \/ Store(NoFault)
    \/ StoreWithOptions(NoFault)
    \/ Retrieve(NoFault)

Spec == Init /\ [][Next]_vars

\* The engine with a store whose calls may fail.
NextFault ==
    \/ Store(AnyFault)
    \/ StoreWithOptions(AnyFault)
    \/ Retrieve(AnyFault)

SpecFault == Init /\ [][NextFault]_vars

\* The engine with a store whose chunk entries may be deleted.
NextDelete ==
    \/ Store(NoFault)
    \/ StoreWithOptions(NoFault)
    \/ Retrieve(NoFault)
    \/ DeleteChunk

SpecDelete == Init /\ [][NextDelete]_vars

\* Bytes that are no encoding of a metadata record.
Garbage == <<Run(0, 1)>>

\* The metadata record of a chunked object is overwritten, not through the
\* engine, by bytes that do not decode: one record at a time, in a store
\* that has lost no chunk.
CorruptMeta ==
    /\ deleted = {}
    /\ \A x \in DOMAIN db : IsMetaKey(x) => from_slice(db[x]).ok
    /\ \E k \in {x \in DOMAIN db : IsMetaKey(x)} :
         /\ db' = Put(db, k, Garbage)
         /\ last' = [NoCall EXCEPT !.op = "corrupt", !.hash = k]
    /\ UNCHANGED <<cache, deleted, faults, calls, input, out, thread, mutex>>

\* The engine with a store whose reads may fail and whose chunk and metadata
\* entries may be damaged.
NextDamage ==
    \/ Store(NoFault)
    \/ StoreWithOptions(NoFault)
    \/ Retrieve(AnyFault)
    \/ DeleteChunk
    \/ CorruptMeta

SpecDamage == Init /\ [][NextDamage]_vars

\* ------------------------------------------------- the functions, applied
\* chunk_data, calculate_hash_with_algorithm and store_with_options, each
\* applied once to arguments drawn from the sets below.

\* The most chunks that the arguments give.
MaxChunks == 5

\* Payloads of one repeated byte, and payloads whose runs end at no chunk
\* boundary.
Uniform(len) == IF len = 0 THEN <<>> ELSE <<Run(1, len)>>
PayloadC == <<Run(1, 1000000), Run(2, 2000000), Run(3, 500000)>>
Lengths ==
    {0, 1, MIN_CHUNK_SIZE - 1, MIN_CHUNK_SIZE, MIN_CHUNK_SIZE + 1,
     DEFAULT_CHUNK_SIZE, DEFAULT_CHUNK_SIZE + 1, 3500000,
     5 * DEFAULT_CHUNK_SIZE, 6 * DEFAULT_CHUNK_SIZE}
ChunkPayloads == {Uniform(len) : len \in Lengths} \cup {PayloadB, PayloadC}
ChunkSizes ==
    {0, 1, 512, MIN_CHUNK_SIZE - 1, MIN_CHUNK_SIZE, MIN_CHUNK_SIZE + 1, 2048,
     DEFAULT_CHUNK_SIZE, DEFAULT_CHUNK_SIZE + 1}

\* The payload gives no more than MaxChunks chunks of the chunk size.
FewChunks(data, chunk_size) ==
    BufLen(data) <= MaxChunks * (IF chunk_size < MIN_CHUNK_SIZE
                                 THEN DEFAULT_CHUNK_SIZE ELSE chunk_size)

ChunkInputs ==
    {a \in [data : ChunkPayloads, alg : HashAlgorithm, cs : ChunkSizes, now : {1}] :
        FewChunks(a.data, a.cs)}

InitChunk ==
    /\ db = <<>>
    /\ cache = <<>>
    /\ last = NoCall
    /\ deleted = {}
    /\ faults = 0
    /\ calls = 0
    /\ input \in ChunkInputs
    /\ out = NoOut
    /\ thread = [t \in Threads |-> Idle]
    /\ mutex = Free

ApplyChunkData ==
    /\ out.op = "none"
    /\ out' = [op |-> "chunk_data",
               val |-> chunk_data(input.data, input.cs, input.alg, input.now)]
    /\ UNCHANGED <<db, cache, last, deleted, faults, calls, input, thread, mutex>>

ApplyCalculateHash ==
    /\ out.op = "none"
    /\ out' = [op |-> "calculate_hash_with_algorithm",
               val |-> calculate_hash_with_algorithm(input.data, input.alg)]
    /\ UNCHANGED <<db, cache, last, deleted, faults, calls, input, thread, mutex>>

ApplyStoreWithOptions ==
    /\ out.op = "none"
    /\ \E r \in {store_with_options(db, cache, input.data, input.alg, input.cs,
                                     input.now, 0)} :
         /\ db' = r.db
         /\ cache' = r.cache
         /\ out' = [op |-> "store_with_options", val |-> r.res]
    /\ UNCHANGED <<last, deleted, faults, calls, input, thread, mutex>>

NextChunk ==
    \/ ApplyChunkData
    \/ ApplyCalculateHash
    \/ ApplyStoreWithOptions

SpecChunk == InitChunk /\ [][NextChunk]_vars

\* ------------------------------------------------- threads on one engine
\* store_with_options and retrieve run by the threads of Threads, one step
\* for each database call and each operation on the cache's mutex.  The
\* position pc of a thread names what it does next:
\*   put_meta, put_chunk, put_raw         the db.put of lines 126, 131, 138
\*   get_meta, get_chunk, get_raw         the db.get of lines 159, 168, 182
\*   lock_lookup, lock_insert             cache.lock() of line 151 and of
\*                                        lines 141, 176, 185
\*   lookup, insert                       cache.get and cache.insert, with
\*                                        the mutex held
\* Database calls succeed in this specification.

\* The calls of the threads: the chunked store of PayloadB, the simple store
\* of the text of its chunk digests, and the retrieve of their digest.
ThreadStoreArgs == {<<PayloadB, MIN_CHUNK_SIZE>>, <<PayloadM, 0>>}
ThreadRetrieveInputs ==
    {DigestOf(PayloadB, HASH_ALGORITHM_BLAKE3, MIN_CHUNK_SIZE)}

\* The thread returns res from its call: the locals are dropped.
Return(t, res) ==
    [thread EXCEPT ![t] = [Idle EXCEPT !.op = thread[t].op,
                                       !.hash = thread[t].hash,
                                       !.res = res]]

\* A thread enters store_with_options: the path is chosen and, on the
\* chunked path, chunk_data has run.
CallStoreWithOptions(t) ==
    /\ thread[t].pc = "idle"
    /\ calls < MaxCalls
    /\ \E a \in ThreadStoreArgs :
         IF UseChunks(a[1], a[2])
         THEN \E chunked_file \in {chunk_data(a[1], a[2], HASH_ALGORITHM_BLAKE3, 1)} :
                thread' = [thread EXCEPT ![t] =
                    [Idle EXCEPT !.pc = "put_meta",
                                 !.op = "store_with_options",
                                 !.hash = chunked_file.metadata.hash,
                                 !.meta = to_vec(chunked_file.metadata),
                                 !.chunks = chunked_file.chunks,
                                 !.n = Len(chunked_file.chunks)]]
         ELSE thread' = [thread EXCEPT ![t] =
                    [Idle EXCEPT !.pc = "put_raw",
                                 !.op = "store_with_options",
                                 !.hash = calculate_hash_with_algorithm(
                                              a[1], HASH_ALGORITHM_BLAKE3),
                                 !.data = a[1]]]
    /\ calls' = calls + 1
    /\ UNCHANGED <<db, cache, last, deleted, faults, input, out, mutex>>

PutMeta(t) ==
    /\ thread[t].pc = "put_meta"
    /\ db' = Put(db, MetaKey(thread[t].hash), thread[t].meta)
    /\ thread' = IF thread[t].n = 0
                 THEN Return(t, Ok(thread[t].hash))
                 ELSE [thread EXCEPT ![t].pc = "put_chunk", ![t].i = 0]
    /\ UNCHANGED <<cache, last, deleted, faults, calls, input, out, mutex>>

PutChunk(t) ==
    /\ thread[t].pc = "put_chunk"
    /\ db' = Put(db, ChunkKey(thread[t].hash, thread[t].i),
                 thread[t].chunks[thread[t].i + 1])
    /\ thread' = IF thread[t].i + 1 = thread[t].n
                 THEN Return(t, Ok(thread[t].hash))
                 ELSE [thread EXCEPT ![t].i = @ + 1]
    /\ UNCHANGED <<cache, last, deleted, faults, calls, input, out, mutex>>

PutRaw(t) ==
    /\ thread[t].pc = "put_raw"
    /\ db' = Put(db, thread[t].hash, thread[t].data)
    /\ thread' = [thread EXCEPT ![t].pc = "lock_insert"]
    /\ UNCHANGED <<cache, last, deleted, faults, calls, input, out, mutex>>

\* A thread enters retrieve.
CallRetrieve(t) ==
    /\ thread[t].pc = "idle"
    /\ calls < MaxCalls
    /\ \E hash \in ThreadRetrieveInputs :
         thread' = [thread EXCEPT ![t] =
                       [Idle EXCEPT !.pc = "lock_lookup", !.op = "retrieve",
                                    !.hash = hash]]
    /\ calls' = calls + 1
    /\ UNCHANGED <<db, cache, last, deleted, faults, input, out, mutex>>

\* Mutex::lock: the thread waits until no thread holds the mutex.
LockCache(t) ==
    /\ thread[t].pc \in {"lock_lookup", "lock_insert"}
    /\ mutex = Free
    /\ mutex' = t
    /\ thread' = [thread EXCEPT ![t].pc =
                     IF thread[t].pc = "lock_lookup" THEN "lookup" ELSE "insert"]
    /\ UNCHANGED <<db, cache, last, deleted, faults, calls, input, out>>

\* Faulty variant: the guard of the lookup is not dropped on a miss.
Lookup_KeepLock(t) ==
    /\ thread[t].pc = "lookup"
    /\ mutex = t
    /\ IF thread[t].hash \in DOMAIN cache
       THEN /\ thread' = Return(t, Ok(cache[thread[t].hash]))
            /\ mutex' = Free
       ELSE /\ thread' = [thread EXCEPT ![t].pc = "get_meta"]
            /\ mutex' = mutex
    /\ UNCHANGED <<db, cache, last, deleted, faults, calls, input, out>>

\* The cache lookup of retrieve: a hit returns a copy, a miss goes on to the
\* store; the guard is dropped either way.
Lookup(t) ==
    /\ thread[t].pc = "lookup"
    /\ mutex = t
    /\ thread' = IF thread[t].hash \in DOMAIN cache
                 THEN Return(t, Ok(cache[thread[t].hash]))
                 ELSE [thread EXCEPT ![t].pc = "get_meta"]
    /\ mutex' = Free
    /\ UNCHANGED <<db, cache, last, deleted, faults, calls, input, out>>

GetMeta(t) ==
    /\ thread[t].pc = "get_meta"
    /\ thread' =
         IF MetaKey(thread[t].hash) \in DOMAIN db
         THEN LET metadata == from_slice(db[MetaKey(thread[t].hash)])
              IN  IF ~metadata.ok THEN Return(t, SerializationError)
                  ELSE [thread EXCEPT
                           ![t].pc = IF Len(metadata.m.chunks) = 0
                                     THEN "lock_insert" ELSE "get_chunk",
                           ![t].n = Len(metadata.m.chunks),
                           ![t].i = 0,
                           ![t].data = <<>>]
         ELSE [thread EXCEPT ![t].pc = "get_raw"]
    /\ UNCHANGED <<db, cache, last, deleted, faults, calls, input, out, mutex>>

\* Faulty variant: a chunk that is not in the store is skipped.
GetChunk_SkipMissing(t) ==
    /\ thread[t].pc = "get_chunk"
    /\ thread' =
         LET k == ChunkKey(thread[t].hash, thread[t].i)
         IN  [thread EXCEPT
                 ![t].data = IF k \in DOMAIN db THEN Extend(@, db[k]) ELSE @,
                 ![t].i = @ + 1,
                 ![t].pc = IF thread[t].i + 1 = thread[t].n
                           THEN "lock_insert" ELSE "get_chunk"]
    /\ UNCHANGED <<db, cache, last, deleted, faults, calls, input, out, mutex>>

GetChunk(t) ==
    /\ thread[t].pc = "get_chunk"
    /\ thread' =
         LET k == ChunkKey(thread[t].hash, thread[t].i)
         IN  IF k \in DOMAIN db
             THEN [thread EXCEPT
                      ![t].data = Extend(@, db[k]),
                      ![t].i = @ + 1,
                      ![t].pc = IF thread[t].i + 1 = thread[t].n
                                THEN "lock_insert" ELSE "get_chunk"]
             ELSE Return(t, ChunkingError(thread[t].i))
    /\ UNCHANGED <<db, cache, last, deleted, faults, calls, input, out, mutex>>

GetRaw(t) ==
    /\ thread[t].pc = "get_raw"
    /\ thread' =
         IF thread[t].hash \in DOMAIN db
         THEN [thread EXCEPT ![t].data = db[thread[t].hash],
                             ![t].pc = "lock_insert"]
         ELSE Return(t, HashNotFound(thread[t].hash))
    /\ UNCHANGED <<db, cache, last, deleted, faults, calls, input, out, mutex>>

\* cache.insert with the mutex held; the call returns and the guard is
\* dropped: retrieve returns the data, store_with_options the digest.
Insert(t) ==
    /\ thread[t].pc = "insert"
    /\ mutex = t
    /\ cache' = Put(cache, thread[t].hash, thread[t].data)
    /\ thread' = Return(t, Ok(IF thread[t].op = "retrieve"
                              THEN thread[t].data ELSE thread[t].hash))
    /\ mutex' = Free
    /\ UNCHANGED <<db, last, deleted, faults, calls, input, out>>

\* A step of a thread inside a call.
Step(t) ==
    \/ PutMeta(t)
    \/ PutChunk(t)
    \/ PutRaw(t)
    \/ LockCache(t)
    \/ Lookup(t)
    \/ GetMeta(t)
    \/ GetChunk(t)
    \/ GetRaw(t)
    \/ Insert(t)

NextThreads ==
    \E t \in Threads :
        \/ CallStoreWithOptions(t)
        \/ CallRetrieve(t)
        \/ Step(t)

SpecThreads == Init /\ [][NextThreads]_vars

\* The threads are scheduled: a thread that can take its next step takes it.
SpecThreadsFair == SpecThreads /\ \A t \in Threads : WF_vars(Step(t))

\* ------------------------------------------------------------------ claims
Stored(c) == c.op \in {"store", "store_with_options"} /\ c.res.kind = "Ok"

\* The last call is a retrieve of the digest that the call before it, a
\* store of last.data with last.alg and last.cs, returned.
RetrieveAfterStore == last.op = "retrieve" /\ last.after # "none" /\ last.prevfail = 0

\* C1: a retrieve of the digest that a simple-path store (store, or
\* store_with_options with chunk size 0 or a payload no longer than the chunk
\* size) has just returned gives back exactly the stored payload, whatever
\* calls came before.
C1_SimpleRoundTrip ==
    (RetrieveAfterStore /\ ~UseChunks(last.data, last.cs))
        => last.res = Ok(last.data)

\* C1 witness: the round trip of a payload whose digest is also the digest of
\* a chunked object of the store.
C1_Witness ==
    /\ RetrieveAfterStore
    /\ last.after = "store_with_options"
    /\ ~UseChunks(last.data, last.cs)
    /\ MetaKey(last.hash) \in DOMAIN db
    /\ last.res = Ok(last.data)

\* smallest integer not below a / b
CeilDiv(a, b) == (a + b - 1) \div b

EffectiveChunkSize(chunk_size) ==
    IF chunk_size >= 1024 THEN chunk_size ELSE 1048576

\* C2: a retrieve of the digest that a chunked-path store_with_options has
\* just returned gives back exactly the stored payload, and the metadata
\* under meta:<d> lists ceil(len(B) / effective_chunk_size) chunk digests.
C2_ChunkedRoundTrip ==
    (RetrieveAfterStore /\ UseChunks(last.data, last.cs))
        => /\ last.res = Ok(last.data)
           /\ MetaKey(last.hash) \in DOMAIN db
           /\ Len(from_slice(db[MetaKey(last.hash)]).m.chunks)
                 = CeilDiv(BufLen(last.data), EffectiveChunkSize(last.cs))

\* No digest of the store s has both a raw entry and a metadata entry.
Exclusive(s) == \A k \in DOMAIN s : IsMetaKey(k) => Tail(k) \notin DOMAIN s

\* C5: no digest has both a raw entry <d> and a metadata entry meta:<d>.
C5_MutualExclusion == Exclusive(db)

\* The index that ends a chunk key.
ChunkIndex(k) == k[Len(k)].num

\* C3 as stated: once chunk:<d>:<i> is deleted, every later retrieve(d)
\* fails with ChunkingError naming i.  (Stated of the stores where no digest
\* has both representations, so that it is refuted on its own account.)
C3_MissingChunkAlways ==
    \A k \in deleted :
        (/\ last.op = "retrieve"
         /\ k = ChunkKey(last.hash, ChunkIndex(k))
         /\ Exclusive(db))
            => last.res = ChunkingError(ChunkIndex(k))

\* C3 amended: once the single entry chunk:<d>:<i> is deleted, a later
\* retrieve(d) that finds d not in the cache and the entry still missing
\* fails with ChunkingError naming i.
C3_MissingChunkUncached ==
    \A k \in deleted :
        (/\ last.op = "retrieve"
         /\ k = ChunkKey(last.hash, ChunkIndex(k))
         /\ ~last.hit
         /\ k \notin DOMAIN db)
            => last.res = ChunkingError(ChunkIndex(k))

\* C3 witness: a retrieve fails on the deleted second chunk of an object.
C3_Witness ==
    /\ last.op = "retrieve"
    /\ ChunkKey(last.hash, 1) \in deleted
    /\ ~last.hit
    /\ last.res = ChunkingError(1)

\* C4: a retrieve of a string h that is not in the cache, with neither
\* meta:<h> nor <h> in the store, fails with HashNotFound(h).
C4_UnknownDigest ==
    (/\ last.op = "retrieve"
     /\ last.hash \notin DOMAIN cache
     /\ MetaKey(last.hash) \notin DOMAIN db
     /\ last.hash \notin DOMAIN db)
        => last.res = HashNotFound(last.hash)

\* C4 witness: a digest that was never stored is retrieved from a store that
\* holds other objects.
C4_Witness ==
    /\ last.op = "retrieve"
    /\ last.hash = calculate_hash(PayloadA)
    /\ last.res = HashNotFound(last.hash)
    /\ ObjectDigests # {}
    /\ DOMAIN cache # {}

\* The entries of the store under the keys of K are the same before and
\* after the step.
SameEntries(K) ==
    \A k \in K : /\ (k \in DOMAIN db') = (k \in DOMAIN db)
                 /\ k \in DOMAIN db => db'[k] = db[k]

\* C6: a successful store_with_options(B, A, C) writes meta:<d> and the chunk
\* entries chunk:<d>:<i>, and no raw entry, when C > 0 and len(B) > C; in
\* every other case it writes B under the digest of B and no metadata or
\* chunk entry; store(B) writes B under the Blake3 digest of B.
C6_PathSelection ==
    [][Stored(last') =>
          LET c == last'
              d == c.res.val
              raw == {k \in DOMAIN db \cup DOMAIN db' : ~IsMetaKey(k) /\ ~IsChunkKey(k)}
          IN  /\ (c.op = "store_with_options" /\ c.cs > 0 /\ BufLen(c.data) > c.cs)
                    => /\ MetaKey(d) \in DOMAIN db'
                       /\ ChunkKey(d, 0) \in DOMAIN db'
                       /\ SameEntries(raw)
              /\ (c.op = "store_with_options" /\ ~(c.cs > 0 /\ BufLen(c.data) > c.cs))
                    => /\ d = <<[alg |-> c.alg, of |-> c.data]>>
                       /\ d \in DOMAIN db' /\ db'[d] = c.data
                       /\ SameEntries((DOMAIN db \cup DOMAIN db') \ raw)
              /\ c.op = "store"
                    => /\ d = <<[alg |-> "blake3", of |-> c.data]>>
                       /\ d \in DOMAIN db' /\ db'[d] = c.data
                       /\ SameEntries((DOMAIN db \cup DOMAIN db') \ raw)
      ]_vars

\* C6 witness: a payload exactly as long as the chunk size went the simple
\* path.
C6_Witness ==
    /\ Stored(last)
    /\ last.op = "store_with_options"
    /\ last.cs > 0
    /\ BufLen(last.data) = last.cs
    /\ last.res.val \in DOMAIN db
    /\ db[last.res.val] = last.data
    /\ MetaKey(last.res.val) \notin DOMAIN db

\* The chunked path of store_with_options was taken and the write of chunk
\* number FailedChunk(c) failed.
ChunkWriteFailed(c) ==
    c.op = "store_with_options" /\ UseChunks(c.data, c.cs) /\ c.fail >= 2
FailedChunk(c) == c.fail - 2

\* What C7 says of the store call whose write of chunk k failed: it returns
\* DBError, meta:<d> and chunk:<d>:0 .. k-1 are written, nothing else is.
PartialWrite(c) ==
    LET d == c.hash
        k == FailedChunk(c)
        pieces == Chunks(c.data, EffectiveChunkSize(c.cs))
        W == {MetaKey(d)} \cup {ChunkKey(d, i) : i \in 0..(k - 1)}
    IN  /\ c.res.kind = "DBError"
        /\ MetaKey(d) \in DOMAIN db'
        /\ from_slice(db'[MetaKey(d)]).ok
        /\ \A i \in 0..(k - 1) :
              ChunkKey(d, i) \in DOMAIN db' /\ db'[ChunkKey(d, i)] = pieces[i + 1]
        /\ SameEntries((DOMAIN db \cup DOMAIN db') \ W)
        /\ cache' = cache

\* C7 as stated: the chunked write leaves meta:<d> and the chunks before the
\* failed one, and the next retrieve(d) fails with ChunkingError.  (Stated
\* of the stores where no digest has both representations, so that it is
\* refuted on its own account.)
C7_NonAtomicWrite ==
    [][/\ ChunkWriteFailed(last') => PartialWrite(last')
       /\ (/\ last'.op = "retrieve" /\ last'.after = "store_with_options"
           /\ last'.prevfail >= 2
           /\ Exclusive(db))
             => last'.res.kind = "ChunkingError"
      ]_vars

\* C7 amended: ... and the next retrieve(d) fails with ChunkingError naming
\* k when d is not in the cache, no entry chunk:<d>:k was in the store
\* before the failed call, and the store reads of the retrieve succeed.
C7_NonAtomicWriteUncached ==
    [][/\ ChunkWriteFailed(last') => PartialWrite(last')
       /\ (/\ last'.op = "retrieve" /\ last'.after = "store_with_options"
           /\ last'.prevfail >= 2
           /\ ~last'.hit
           /\ last'.fail = 0
           /\ ChunkKey(last'.hash, last'.prevfail - 2) \notin DOMAIN db)
             => last'.res = ChunkingError(last'.prevfail - 2)
      ]_vars

\* C7 witness: the write of the second chunk failed and the retrieve that
\* follows fails on that chunk.
C7_Witness ==
    /\ last.op = "retrieve"
    /\ last.after = "store_with_options"
    /\ last.prevfail = 3
    /\ MetaKey(last.hash) \in DOMAIN db
    /\ ChunkKey(last.hash, 0) \in DOMAIN db
    /\ last.res = ChunkingError(1)

\* The step leaves the cache as it was but for the entry d, which is V.
CacheSetTo(d, V) ==
    /\ DOMAIN cache' = DOMAIN cache \cup {d}
    /\ cache'[d] = V
    /\ \A k \in DOMAIN cache \ {d} : cache'[k] = cache[k]

\* C8: a successful simple-path store of B with digest d leaves cache[d] = B,
\* a successful retrieve(d) that returns V leaves cache[d] = V, and neither
\* adds or changes another cache entry.
C8_CachePopulation ==
    [][LET c == last'
       IN  /\ (Stored(c) /\ ~(c.cs > 0 /\ BufLen(c.data) > c.cs))
                 => CacheSetTo(c.res.val, c.data)
           /\ (c.op = "retrieve" /\ c.res.kind = "Ok")
                 => CacheSetTo(c.hash, c.res.val)
      ]_vars

\* C8 witness: a chunked object was reassembled from the store and is now in
\* the cache under its object digest, next to an entry of a simple store.
C8_Witness ==
    /\ last.op = "retrieve"
    /\ ~last.hit
    /\ last.res.kind = "Ok"
    /\ MetaKey(last.hash) \in DOMAIN db
    /\ last.hash \in DOMAIN cache
    /\ cache[last.hash] = last.res.val
    /\ Cardinality(DOMAIN cache) = 2

\* C9: a chunked-path store_with_options leaves the cache unchanged and
\* writes no key but meta:<d> and chunk:<d>:<i>, i below the number of
\* chunks; in particular no raw entry <d>.
C9_ChunkedStoreFrame ==
    [][LET c == last'
           d == c.res.val
           n == CeilDiv(BufLen(c.data), EffectiveChunkSize(c.cs))
           W == {MetaKey(d)} \cup {ChunkKey(d, i) : i \in 0..(n - 1)}
       IN  (Stored(c) /\ c.cs > 0 /\ BufLen(c.data) > c.cs)
              => /\ cache' = cache
                 /\ SameEntries({d})
                 /\ SameEntries((DOMAIN db \cup DOMAIN db') \ W)
                 /\ W \subseteq DOMAIN db'
      ]_vars

\* C9 witness: after a chunked store of three chunks the object is in the
\* store and neither its digest nor anything else is in the cache.
C9_Witness ==
    /\ Stored(last)
    /\ UseChunks(last.data, last.cs)
    /\ ChunkKey(last.res.val, 2) \in DOMAIN db
    /\ last.res.val \notin DOMAIN db
    /\ cache = <<>>

\* The outcome of the call c made in the state (db, cache) when its
\* database call number f fails and the clock reads now.
Outcome(c, now, f) ==
    IF c.op = "store" THEN store(db, cache, c.data, f)
    ELSE IF c.op = "store_with_options"
         THEN store_with_options(db, cache, c.data, c.alg, c.cs, now, f)
         ELSE retrieve(db, cache, c.hash, f)

\* C10: two executions of an operation from the same state with the same
\* arguments that return the same error kind leave the same state.
C10_ErrorObservability ==
    [][\A now \in Timestamps, f \in AnyFault :
          LET alt == Outcome(last', now, f)
          IN  (/\ last'.op \in {"store", "store_with_options", "retrieve"}
               /\ last'.res.kind # "Ok"
               /\ f <= alt.io
               /\ alt.res.kind = last'.res.kind)
                 => (alt.db = db' /\ alt.cache = cache')
      ]_vars

\* The buffers of a sequence, one after the other.
RECURSIVE Concat(_)
Concat(bufs) ==
    IF bufs = <<>> THEN <<>> ELSE Extend(Head(bufs), Concat(Tail(bufs)))

\* The length of slice number i (from 0) of n slices of size c that make up
\* len bytes.
SliceLen(len, c, n, i) == IF i < n - 1 THEN c ELSE len - (n - 1) * c

\* C11: store_with_options(B, A, C) with 0 < C < 1024 and len(B) > C stores
\* under meta:<d> a record whose chunk_size is 1,048,576, and under
\* chunk:<d>:<i> the consecutive slices of B of 1,048,576 bytes (the last one
\* the remainder), not slices of C bytes.
C11_ChunkSizeFloor ==
    (/\ out.op = "store_with_options"
     /\ 0 < input.cs /\ input.cs < 1024
     /\ BufLen(input.data) > input.cs)
        => /\ out.val.kind = "Ok"
           /\ MetaKey(out.val.val) \in DOMAIN db
           /\ LET d == out.val.val
                  m == from_slice(db[MetaKey(d)]).m
                  len == BufLen(input.data)
                  n == CeilDiv(len, 1048576)
              IN  /\ m.chunk_size = 1048576
                  /\ Len(m.chunks) = n
                  /\ \A i \in 0..(n - 1) :
                        /\ ChunkKey(d, i) \in DOMAIN db
                        /\ BufLen(db[ChunkKey(d, i)]) = SliceLen(len, 1048576, n, i)
                  /\ ChunkKey(d, n) \notin DOMAIN db
                  /\ Concat([i \in 1..n |-> db[ChunkKey(d, i - 1)]]) = input.data

\* C11 witness: 3,500,000 bytes stored with a requested chunk size of 512 are
\* in the store as four slices, the last of 354,272 bytes.
C11_Witness ==
    /\ out.op = "store_with_options"
    /\ input.cs = 512
    /\ input.data = PayloadC
    /\ out.val.kind = "Ok"
    /\ from_slice(db[MetaKey(out.val.val)]).m.chunk_size = 1048576
    /\ ChunkKey(out.val.val, 3) \in DOMAIN db
    /\ BufLen(db[ChunkKey(out.val.val, 3)]) = 354272

\* The chunk sizes other than the drawn one that take the chunked path for
\* the drawn payload.
OtherChunkedSizes ==
    {c \in ChunkSizes : /\ c # input.cs
                        /\ 0 < c /\ c < BufLen(input.data)
                        /\ FewChunks(input.data, c)}

\* C12 as stated: the digest that a chunked store_with_options(B, A, C1)
\* returns differs from the digest of B and A under every other chunk size
\* C2 that takes the chunked path.
C12_ChunkSizeSensitivity ==
    (/\ out.op = "store_with_options"
     /\ 0 < input.cs /\ input.cs < BufLen(input.data))
        => \A c \in OtherChunkedSizes :
              DigestOf(input.data, input.alg, c) # out.val.val

\* C12 amended: ... under every other chunk size C2 that takes the chunked
\* path and whose effective chunk size (C, or 1,048,576 for C < 1024) is not
\* that of C1; with the same effective chunk size the digests are the same.
C12_EffectiveSizeSensitivity ==
    (/\ out.op = "store_with_options"
     /\ 0 < input.cs /\ input.cs < BufLen(input.data))
        => \A c \in OtherChunkedSizes :
              (DigestOf(input.data, input.alg, c) = out.val.val)
                 <=> (EffectiveChunkSize(c) = EffectiveChunkSize(input.cs))

\* C12 witness: a chunked store whose digest is compared with the digests
\* under chunk sizes of other effective sizes and of the same effective size.
C12_Witness ==
    /\ out.op = "store_with_options"
    /\ out.val.kind = "Ok"
    /\ input.data = PayloadC
    /\ input.cs = 1048576
    /\ MetaKey(out.val.val) \in DOMAIN db
    /\ \E c \in OtherChunkedSizes : DigestOf(input.data, input.alg, c) = out.val.val
    /\ \E c \in OtherChunkedSizes : DigestOf(input.data, input.alg, c) # out.val.val

\* What C13 says of every application of chunk_data: ceil(L / C) chunks, in
\* payload order, every one but the last of C bytes, C the effective chunk
\* size.
ChunkShape ==
    LET len == BufLen(input.data)
        c == EffectiveChunkSize(input.cs)
        chunks == out.val.chunks
        n == Len(chunks)
    IN  /\ n = CeilDiv(len, c)
        /\ Len(out.val.metadata.chunks) = n
        /\ \A i \in 1..(n - 1) : BufLen(chunks[i]) = c
        /\ Concat(chunks) = input.data

\* The chunks of the example of C13: 3,500,000 bytes, chunk size 1,048,576.
IsExample == BufLen(input.data) = 3500000 /\ EffectiveChunkSize(input.cs) = 1048576

C14_DigestLength ==
    out.op = "calculate_hash_with_algorithm"
        => BufLen(StrBytes(out.val)) = 64

\* The errors of retrieve(hash): none of them carries bytes of a payload.
RetrieveErrors(hash) ==
    {HashNotFound(hash), DBError, SerializationError}
        \cup {ChunkingError(i) : i \in 0..2}

\* C15: a retrieve that returns an error returns one of HashNotFound,
\* ChunkingError, SerializationError and DBError, with no payload bytes, and
\* leaves the cache and the store as they were before the call.
C15_FailedRetrieveNoEffect ==
    [][(last'.op = "retrieve" /\ last'.res.kind # "Ok")
          => /\ last'.res \in RetrieveErrors(last'.hash)
             /\ db' = db
             /\ cache' = cache
      ]_vars

\* C15 witness: a retrieve failed on the second chunk after it read the
\* first, and the object is not in the cache, which holds another entry.
C15_Witness ==
    /\ last.op = "retrieve"
    /\ last.res = ChunkingError(1)
    /\ ChunkKey(last.hash, 0) \in DOMAIN db
    /\ last.hash \notin DOMAIN cache
    /\ cache # <<>>

\* C16: no call takes a key out of the cache, and a retrieve(d) made when
\* cache[d] exists returns a copy of cache[d] without a database call (none
\* of its database calls can fail, and a damaged store does not show).
C16_NoEviction ==
    [][/\ DOMAIN cache \subseteq DOMAIN cache'
       /\ (last'.op = "retrieve" /\ last'.hash \in DOMAIN cache)
             => /\ last'.hit
                /\ last'.fail = 0
                /\ last'.res = Ok(cache[last'.hash])
                /\ cache' = cache
      ]_vars

\* C16 witness: a chunked object whose metadata record no longer decodes is
\* retrieved, and the answer is the cache's.
C16_Witness ==
    /\ last.op = "retrieve"
    /\ last.hit
    /\ MetaKey(last.hash) \in DOMAIN db
    /\ ~from_slice(db[MetaKey(last.hash)]).ok
    /\ last.res = Ok(cache[last.hash])

\* What retrieve(d) returns from the store when the cache is passed by: the
\* chunks chunk:<d>:<i> in order when meta:<d> exists, else the value at <d>.
FromStore(d) == retrieve(db, <<>>, d, 0).res

\* C17: every cache entry d -> V is what retrieve(d) returns from the store
\* with the cache passed by.
C17_CacheCoherence ==
    \A d \in DOMAIN cache : FromStore(d) = Ok(cache[d])

\* The digests that the store calls made so far have returned (every call
\* succeeds): the raw keys and the digests of the metadata keys.
ReturnedDigests ==
    {k \in DOMAIN db : ~IsMetaKey(k) /\ ~IsChunkKey(k)} \cup ObjectDigests

\* bytes is a payload whose store call returns the digest h.
PayloadOf(bytes, h) ==
    \E a \in StoreArgs \cup {<<p, 0>> : p \in Payloads}, algorithm \in Algorithms :
        a[1] = bytes /\ DigestOf(a[1], algorithm, a[2]) = h

\* C18: retrieve(h) of a digest h that a store call returned succeeds only
\* with a payload that was stored under h; retrieve(h) of any other string,
\* the key strings meta:<d> and chunk:<d>:<i> among them, fails with
\* HashNotFound.
C18_OnlyStoredPayloads ==
    last.op = "retrieve"
        => IF last.hash \in ReturnedDigests
           THEN last.res.kind = "Ok" => PayloadOf(last.res.val, last.hash)
           ELSE last.res = HashNotFound(last.hash)

\* bytes is the payload whose chunked store returns the digest d.
ChunkedPayloadOf(bytes, d) ==
    \E a \in ThreadStoreArgs :
        /\ UseChunks(a[1], a[2])
        /\ a[1] = bytes
        /\ DigestOf(a[1], HASH_ALGORITHM_BLAKE3, a[2]) = d

\* C19: a retrieve(d) that runs while other threads run the chunked
\* store_with_options of the payload of d, d not stored as a raw object,
\* returns HashNotFound, ChunkingError or the complete payload, and what it
\* leaves in the cache under d is the complete payload.
C19_ConcurrentRead ==
    /\ \A t \in Threads :
          (/\ thread[t].op = "retrieve"
           /\ thread[t].pc = "idle"
           /\ thread[t].hash \notin DOMAIN db)
              => \/ thread[t].res = HashNotFound(thread[t].hash)
                 \/ thread[t].res \in {ChunkingError(i) : i \in 0..2}
                 \/ /\ thread[t].res.kind = "Ok"
                    /\ ChunkedPayloadOf(thread[t].res.val, thread[t].hash)
    /\ \A d \in DOMAIN cache :
          d \notin DOMAIN db => ChunkedPayloadOf(cache[d], d)

\* C19 witness: a retrieve has failed on the second chunk while the thread
\* that stores the object has written the first chunk only.
C19_Witness ==
    \E r \in Threads, w \in Threads :
        /\ thread[r].op = "retrieve"
        /\ thread[r].pc = "idle"
        /\ thread[r].res = ChunkingError(1)
        /\ thread[w].pc = "put_chunk"
        /\ thread[w].hash = thread[r].hash
        /\ thread[w].i = 1
        /\ thread[r].hash \notin DOMAIN db
        /\ thread[r].hash \notin DOMAIN cache

\* The positions at which a thread is in a database call, and at which it
\* waits for the mutex.
DbPositions == {"put_meta", "put_chunk", "put_raw", "get_meta", "get_chunk", "get_raw"}
LockPositions == {"lock_lookup", "lock_insert"}

\* No thread is in a database call, or waits for the mutex, while it holds
\* the mutex.
LockDiscipline ==
    \A t \in Threads :
        /\ thread[t].pc \in DbPositions => mutex # t
        /\ thread[t].pc \in LockPositions => mutex # t

\* While a thread is in a call, some thread in a call can take a step.
NoDeadlock ==
    (\E t \in Threads : thread[t].pc # "idle")
        => \E t \in Threads : ENABLED Step(t)

\* C20: no thread is in a database call while it holds the cache mutex, no
\* thread waits for the mutex while it holds it, no state is a deadlock, and
\* every call returns.
C20_LockDiscipline ==
    /\ [](LockDiscipline /\ NoDeadlock)
    /\ \A t \in Threads : (thread[t].pc # "idle") ~> (thread[t].pc = "idle")

\* C20 witness: a thread holds the mutex for the insert of its retrieve
\* while another thread waits for the mutex.
C20_Witness ==
    \E t \in Threads, u \in Threads :
        /\ mutex = t
        /\ thread[t].pc = "insert"
        /\ thread[t].op = "retrieve"
        /\ thread[u].pc \in LockPositions

====
